---------------------------- MODULE Spec2Model ----------------------------
(***************************************************************************)
(* A model of the 8-puzzle A* solver of puzzle.02.py.                      *)
(*                                                                         *)
(* Configurations are the tuples of the source, written as sequences; the  *)
(* source indexes them from 0, a sequence is indexed from 1, so position i *)
(* of the source is element i+1 here.  Nodes live in an arena (`nodes`):   *)
(* the index of a node in it stands for the identity of the PuzzleNode     *)
(* object, index 0 for None.  The wall-clock "time" entry of a solution is *)
(* left out of the modelled result.                                        *)
(***************************************************************************)
EXTENDS Integers, Sequences, FiniteSets, TLC

VARIABLES
    initial_state,      \* argument of solve_puzzle
    goal_state,         \* argument of solve_puzzle
    pc,                 \* position of the solver: "idle", "call", "loop", "returned", "raised", "probe"
    exception,          \* name of the exception that ended the call, "" if none
    result_queue,       \* what the call has put on result_queue
    nodes,              \* every PuzzleNode created by the call, in creation order
    open_set,           \* the heap list of (f_cost, unique_id, node) entries
    unique_id,
    closed_set,
    open_set_g_costs,
    current,            \* arena index of current_node (0 before the first pop)
    neighbors,          \* arena indices returned by the last get_neighbors call
    popped,             \* history: the (f, id, state) of every entry popped, in order
    expanded,           \* history: the configuration of every get_neighbors call, in order
    run,                \* 1 for the first call on the inputs, 2 for the second
    prev,               \* history: what the first call popped and put on its queue
    probe,              \* a board of the move-graph exploration (<<>> in solver behaviours)
    self_initial_state, \* PuzzleGUI.initial_state
    self_goal_state,    \* PuzzleGUI.goal_state
    self_current_state, \* PuzzleGUI.current_state
    solution_path,
    animation_index,
    allow_user_moves,
    solve_button,       \* the state option of the button: "normal" or "disabled"
    reset_button,
    shuffle_button,
    set_button,
    input_entry,        \* the text of the entry box
    scheduled,          \* the callbacks handed to self.after and not yet run
    events,             \* history: the number of clicks and button presses so far
    solves,             \* history: the board and its origin at every start_solve_thread
    handled,            \* history: every result check_solution_queue took from the queue
    board_from,         \* history: what set initial_state last: "main", "set", "click", "shuffle"
    main_pc             \* position of the main thread: "mainloop", or "374" in start_solve_thread

gui_vars == <<self_initial_state, self_goal_state, self_current_state, solution_path,
              animation_index, allow_user_moves, solve_button, reset_button,
              shuffle_button, set_button, input_entry, scheduled, events, solves,
              handled, board_from, main_pc>>

vars == <<initial_state, goal_state, pc, exception, result_queue, nodes, open_set,
          unique_id, closed_set, open_set_g_costs, current, neighbors, popped,
          expanded, run, prev, probe, gui_vars>>

-----------------------------------------------------------------------------
(* Program constants *)

GOAL_STATE == <<1, 2, 3, 4, 5, 6, 7, 8, 0>>

INITIAL_STATE == <<1, 2, 3, 7, 4, 5, 0, 8, 6>>

\* the moves listed with UP and DOWN exchanged
possible_moves_down_first ==
    << <<1, 0, "DOWN">>, <<-1, 0, "UP">>, <<0, -1, "LEFT">>, <<0, 1, "RIGHT">> >>

possible_moves == << <<-1, 0, "UP">>, <<1, 0, "DOWN">>, <<0, -1, "LEFT">>, <<0, 1, "RIGHT">> >>

(* Bounds of the model *)

ScrambleDepth == 5

\* the last rounds of a shuffle in which random.choice is let to draw any
\* index (it draws index 0 in the rounds before them)
FreePicks == 2

\* the clicks and button presses of a session
MaxEvents == 3

-----------------------------------------------------------------------------
(* Helpers *)

Abs(x) == IF x < 0 THEN -x ELSE x

Range(s) == {s[i] : i \in DOMAIN s}

RECURSIVE Reverse(_)
Reverse(s) == IF s = <<>> THEN <<>> ELSE Append(Reverse(Tail(s)), Head(s))

\* list(state) with the entries at source positions i and j exchanged
SwapAt(s, i, j) == [s EXCEPT ![i + 1] = s[j + 1], ![j + 1] = s[i + 1]]

-----------------------------------------------------------------------------
(* PuzzleNode *)

PuzzleNode(state, parent, move, g_cost) ==
    [state |-> state, parent |-> parent, move |-> move, g_cost |-> g_cost,
     h_cost |-> 0, f_cost |-> 0]

\* PuzzleNode.__lt__
NodeLt(a, b) == a.f_cost < b.f_cost

-----------------------------------------------------------------------------
(* calculate_manhattan_distance *)

\* goal_positions[tile] for a tile of the goal: the dict comprehension keeps the
\* last position of a tile, found here by looking from position i downwards
RECURSIVE LastPosition(_, _, _)
LastPosition(goal, tile, i) ==
    IF goal[i + 1] = tile THEN i ELSE LastPosition(goal, tile, i - 1)

GoalPosition(goal, tile) == LastPosition(goal, tile, Len(goal) - 1)

\* goal_positions[tile] raises KeyError for a tile the goal does not hold
ManhattanRaises(state, goal) ==
    LET keys == Range(goal)
    IN \E i \in DOMAIN state : state[i] # 0 /\ state[i] \notin keys

\* the sum with the blank counted as a tile
RECURSIVE ManhattanCountingBlank(_, _, _)
ManhattanCountingBlank(state, goal, i) ==
    IF i >= Len(state) THEN 0
    ELSE LET goal_pos == GoalPosition(goal, state[i + 1])
         IN Abs((i \div 3) - (goal_pos \div 3)) + Abs((i % 3) - (goal_pos % 3))
                + ManhattanCountingBlank(state, goal, i + 1)

\* the distance taken along the flat tuple instead of the grid
RECURSIVE LinearFrom(_, _, _)
LinearFrom(state, goal, i) ==
    IF i >= Len(state) THEN 0
    ELSE (IF state[i + 1] = 0 THEN 0 ELSE Abs(i - GoalPosition(goal, state[i + 1])))
             + LinearFrom(state, goal, i + 1)

calculate_linear_distance(state, goal) == LinearFrom(state, goal, 0)

RECURSIVE ManhattanFrom(_, _, _)
ManhattanFrom(state, goal, i) ==
    IF i >= Len(state) THEN 0
    ELSE LET tile == state[i + 1]
             rest == ManhattanFrom(state, goal, i + 1)
         IN IF tile = 0 THEN rest
            ELSE LET current_row == i \div 3
                     current_col == i % 3
                     goal_pos == GoalPosition(goal, tile)
                     goal_row == goal_pos \div 3
                     goal_col == goal_pos % 3
                 IN Abs(current_row - goal_row) + Abs(current_col - goal_col) + rest

calculate_manhattan_distance(state, goal) == ManhattanFrom(state, goal, 0)

-----------------------------------------------------------------------------
(* get_neighbors *)

\* state_list.index(0): the first position of the blank
RECURSIVE FirstPosition(_, _, _)
FirstPosition(state, value, i) ==
    IF state[i + 1] = value THEN i ELSE FirstPosition(state, value, i + 1)

BlankIndex(state) == FirstPosition(state, 0, 0)

\* a neighbour node ordered by its heuristic alone
NeighborNodeGreedy(parent, node, new_state, move_name, goal) ==
    LET made == PuzzleNode(new_state, parent, move_name, node.g_cost + 1)
        h == calculate_manhattan_distance(new_state, goal)
    IN [made EXCEPT !.h_cost = h, !.f_cost = h]

\* a neighbour node that keeps the path cost of its parent
NeighborNodeSameCost(parent, node, new_state, move_name, goal) ==
    LET made == PuzzleNode(new_state, parent, move_name, node.g_cost)
        h == calculate_manhattan_distance(new_state, goal)
    IN [made EXCEPT !.h_cost = h, !.f_cost = made.g_cost + h]

\* lines 67-73: the neighbour node for new_state, one move after node
NeighborNode(parent, node, new_state, move_name, goal) ==
    LET made == PuzzleNode(new_state, parent, move_name, node.g_cost + 1)
        h == calculate_manhattan_distance(new_state, goal)
    IN [made EXCEPT !.h_cost = h, !.f_cost = made.g_cost + h]

\* line 60: the target cell lies on the grid
OnGrid(new_row, new_col) == 0 <= new_row /\ new_row < 3 /\ 0 <= new_col /\ new_col < 3

\* The body of the for loop over possible_moves, from move k on; acc holds the
\* neighbour nodes appended so far.  The result names the exception that ended
\* the call ("" when it returned) and the nodes created.
RECURSIVE NeighborsFrom(_, _, _, _, _)
NeighborsFrom(parent, node, goal, k, acc) ==
    IF k > Len(possible_moves) THEN [raised |-> "", nodes |-> acc]
    ELSE LET blank_index == BlankIndex(node.state)
             blank_row == blank_index \div 3
             blank_col == blank_index % 3
             new_row == blank_row + possible_moves[k][1]
             new_col == blank_col + possible_moves[k][2]
             move_name == possible_moves[k][3]
             swap_index == new_row * 3 + new_col
         IN IF OnGrid(new_row, new_col)
            THEN IF swap_index >= Len(node.state)
                 THEN [raised |-> "IndexError", nodes |-> acc]
                 ELSE CHOOSE result \in
                        { IF ManhattanRaises(new_state, goal)
                          THEN [raised |-> "KeyError",
                                nodes |-> Append(acc, PuzzleNode(new_state, parent, move_name,
                                                                 node.g_cost + 1))]
                          ELSE NeighborsFrom(parent, node, goal, k + 1,
                                   Append(acc, NeighborNode(parent, node, new_state,
                                                            move_name, goal)))
                          : new_state \in {SwapAt(node.state, blank_index, swap_index)} }
                        : TRUE
            ELSE NeighborsFrom(parent, node, goal, k + 1, acc)

\* get_neighbors(node, goal_state); parent is the arena index of node
get_neighbors(parent, node, goal) ==
    IF 0 \notin Range(node.state) THEN [raised |-> "ValueError", nodes |-> <<>>]
    ELSE NeighborsFrom(parent, node, goal, 1, <<>>)

-----------------------------------------------------------------------------
(* reconstruct_path *)

\* the while loop: the states from the node back to the root
RECURSIVE WalkParents(_, _)
WalkParents(arena, c) ==
    IF c = 0 THEN <<>> ELSE <<arena[c].state>> \o WalkParents(arena, arena[c].parent)

\* the path left in goal-to-start order
reconstruct_path_unreversed(arena, node) == WalkParents(arena, node)

reconstruct_path(arena, node) == Reverse(WalkParents(arena, node))

-----------------------------------------------------------------------------
(* heapq on (f_cost, unique_id, node) tuples *)

\* tuple comparison a < b: the first differing component decides; nodes are
\* equal only when they are the same object and compare by __lt__ otherwise
EntryLt(a, b, arena) ==
    IF a[1] # b[1] THEN a[1] < b[1]
    ELSE IF a[2] # b[2] THEN a[2] < b[2]
    ELSE IF a[3] # b[3] THEN NodeLt(arena[a[3]], arena[b[3]])
    ELSE FALSE

\* heapq._siftdown (each round reads the list and the position the round
\* before left, evaluated once)
RECURSIVE SiftDown(_, _, _, _, _)
SiftDown(heap_in, startpos, pos_in, newitem, arena) ==
    CHOOSE result \in
        { IF pos > startpos
          THEN LET parentpos == (pos - 1) \div 2
                   parent == heap[parentpos + 1]
               IN IF EntryLt(newitem, parent, arena)
                  THEN SiftDown([heap EXCEPT ![pos + 1] = parent], startpos, parentpos,
                                newitem, arena)
                  ELSE [heap EXCEPT ![pos + 1] = newitem]
          ELSE [heap EXCEPT ![pos + 1] = newitem]
          : <<heap, pos>> \in {<<heap_in, pos_in>>} } : TRUE

\* the while loop of heapq._siftup: bubble the smaller child up until a leaf
RECURSIVE SiftUpLoop(_, _, _)
SiftUpLoop(heap_in, pos_in, arena) ==
    CHOOSE result \in
        { LET endpos == Len(heap)
              childpos == 2 * pos + 1
              rightpos == childpos + 1
          IN IF childpos < endpos
             THEN LET c == IF rightpos < endpos
                              /\ ~EntryLt(heap[childpos + 1], heap[rightpos + 1], arena)
                           THEN rightpos ELSE childpos
                  IN SiftUpLoop([heap EXCEPT ![pos + 1] = heap[c + 1]], c, arena)
             ELSE [heap |-> heap, pos |-> pos]
          : <<heap, pos>> \in {<<heap_in, pos_in>>} } : TRUE

\* heapq._siftup
SiftUp(heap, pos, arena) ==
    LET newitem == heap[pos + 1]
        r == SiftUpLoop(heap, pos, arena)
    IN SiftDown(r.heap, pos, r.pos, newitem, arena)

\* heapq.heappush
heappush(heap, item, arena) ==
    SiftDown(Append(heap, item), 0, Len(heap), item, arena)

\* a pop that takes the head and leaves the rest of the list as it stands
heappop_unsifted(heap, arena) == [item |-> heap[1], heap |-> Tail(heap)]

\* heapq.heappop on a non-empty heap: the item returned and the heap left
heappop(heap, arena) ==
    LET lastelt == heap[Len(heap)]
        rest == SubSeq(heap, 1, Len(heap) - 1)
    IN IF rest # <<>>
       THEN [item |-> rest[1], heap |-> SiftUp([rest EXCEPT ![1] = lastelt], 0, arena)]
       ELSE [item |-> lastelt, heap |-> rest]

-----------------------------------------------------------------------------
(* solve_puzzle: the solvability check *)

\* the blank kept among the tiles
FlatStateWithBlank(state) == state

\* flat_state
FlatState(state) == SelectSeq(state, LAMBDA t : t # 0)

\* the two nested loops over flat_state, from the pair (i, j) on
RECURSIVE InversionsFrom(_, _, _)
InversionsFrom(flat, i, j) ==
    IF i >= Len(flat) THEN 0
    ELSE IF j >= Len(flat) THEN InversionsFrom(flat, i + 1, i + 2)
    ELSE (IF flat[i + 1] > flat[j + 1] THEN 1 ELSE 0) + InversionsFrom(flat, i, j + 1)

Inversions(state) == InversionsFrom(FlatState(state), 0, 1)

\* the parity test inverted
ReportsUnsolvableOnEven(state) == Inversions(state) % 2 = 0

\* line 100
ReportsUnsolvable(state) == Inversions(state) % 2 # 0

(* solve_puzzle: the results put on the queue *)

UnsolvableInfo == [unsolvable |-> TRUE]

SolutionInfo(path, moves, explored) ==
    [unsolvable |-> FALSE, path |-> path, moves |-> moves, explored |-> explored]

\* result_queue.put(None)
NoSolution == [none |-> TRUE]

(* solve_puzzle: the for loop over the neighbours of the popped node *)

\* the test that lets a neighbour through at the recorded cost
SkipNeighborAboveOnly(neighbor, closed, g_costs) ==
    \/ neighbor.state \in closed
    \/ /\ neighbor.state \in DOMAIN g_costs
       /\ neighbor.g_cost > g_costs[neighbor.state]

\* lines 136-141: the neighbour is closed, or recorded at a cost no worse
SkipNeighbor(neighbor, closed, g_costs) ==
    \/ neighbor.state \in closed
    \/ /\ neighbor.state \in DOMAIN g_costs
       /\ neighbor.g_cost >= g_costs[neighbor.state]

\* the counter left as it is
SameUniqueId(id) == id

\* line 144
NextUniqueId(id) == id + 1

\* lines 136-145 for one neighbour, whose arena index is `index`; acc holds
\* open_set, open_set_g_costs and unique_id as the loop has left them so far
PushNeighbor(neighbor, index, closed, arena, acc) ==
    LET new_g_cost == neighbor.g_cost
        id == NextUniqueId(acc.unique_id)
    IN IF SkipNeighbor(neighbor, closed, acc.g_costs) THEN acc
       ELSE [g_costs |-> [s \in DOMAIN acc.g_costs \cup {neighbor.state} |->
                            IF s = neighbor.state THEN new_g_cost ELSE acc.g_costs[s]],
             unique_id |-> id,
             open_set |-> heappush(acc.open_set, <<neighbor.f_cost, id, index>>, arena)]

\* lines 135-145: the loop from neighbour k on; base + k is the arena index of
\* neighbour k (each round is evaluated once, on the value the round before left)
RECURSIVE PushNeighbors(_, _, _, _, _, _)
PushNeighbors(nbrs, k, base, closed, arena, acc) ==
    IF k > Len(nbrs) THEN acc
    ELSE PushNeighbors(nbrs, k + 1, base, closed, arena,
                       CHOOSE next \in {PushNeighbor(nbrs[k], base + k, closed, arena, a) :
                                           a \in {acc}} : TRUE)

-----------------------------------------------------------------------------
(* The 3x3 blank-move graph, stated on grid positions *)

GridAdjacent(p, q) ==
    Abs((p \div 3) - (q \div 3)) + Abs((p % 3) - (q % 3)) = 1

\* the boards one legal move away from a permutation of 0..8
LegalMoves(board) ==
    LET b == CHOOSE p \in 0 .. 8 : board[p + 1] = 0
    IN {SwapAt(board, b, q) : q \in {q \in 0 .. 8 : GridAdjacent(b, q)}}

\* the boards at most d legal moves away from the boards seen so far
RECURSIVE Within(_, _, _)
Within(frontier, seen, d) ==
    IF d = 0 \/ frontier = {} THEN seen
    ELSE LET next == UNION {LegalMoves(b) : b \in frontier} \ seen
         IN Within(next, seen \cup next, d - 1)

\* breadth-first search: the number of legal moves from the frontier's origin
\* to the target, -1 when the target cannot be reached
RECURSIVE BreadthFirst(_, _, _, _)
BreadthFirst(frontier, seen, target, d) ==
    IF target \in frontier THEN d
    ELSE IF frontier = {} THEN -1
    ELSE LET next == UNION {LegalMoves(b) : b \in frontier} \ seen
         IN BreadthFirst(next, seen \cup next, target, d + 1)

ShortestDistance(from, to) == BreadthFirst({from}, {from}, to, 0)

IsPermutation(state) == Len(state) = 9 /\ Range(state) = 0 .. 8

-----------------------------------------------------------------------------
(* The inputs of the model *)

\* scenario 2 of the specification: the goal with its last two tiles exchanged
OddTwin == <<1, 2, 3, 4, 5, 6, 8, 7, 0>>

\* scrambles deeper than ScrambleDepth: 12 moves with a configuration pushed to
\* the frontier twice, 8 moves and 12 moves with detours the heuristic favours
DeepStarts ==
    { <<1, 2, 3, 8, 7, 6, 0, 5, 4>>,
      <<1, 2, 3, 7, 0, 4, 8, 6, 5>>,
      <<7, 1, 3, 2, 4, 6, 5, 8, 0>> }

EvenStarts == Within({GOAL_STATE}, {GOAL_STATE}, ScrambleDepth) \cup DeepStarts \cup {INITIAL_STATE}

OddStarts == Within({OddTwin}, {OddTwin}, ScrambleDepth)

\* tuples that are not permutations of 0..8
InvalidStarts ==
    { <<1, 2, 3>>,
      <<0, 1>>,
      <<1, 2, 3, 4, 5, 6, 7, 8, 8>>,
      <<2, 1, 3, 4, 5, 6, 7, 8, 8>>,
      <<1, 2, 3, 4, 5, 6, 7, 8, 9>>,
      <<1, 1, 1, 1, 1, 1, 1, 1, 1, 1, 1, 1, 0>> }

Inputs ==
    {<<s, GOAL_STATE>> : s \in EvenStarts \cup OddStarts \cup InvalidStarts}
        \cup {<<c, c>> : c \in EvenStarts \cup OddStarts}

-----------------------------------------------------------------------------
(* PuzzleGUI: texts of the entry box.  A text is the sequence of the code   *)
(* points ord(c) of its characters.                                          *)

Digits == <<"0", "1", "2", "3", "4", "5", "6", "7", "8", "9">>

\* ord(c) of the ASCII characters the texts of the model are written with
ord(c) ==
    CASE c = " " -> 32
      [] c = "+" -> 43
      [] c = "," -> 44
      [] c = "-" -> 45
      [] c = "_" -> 95
      [] c = "x" -> 120
      [] OTHER -> 48 + CHOOSE d \in 0 .. 9 : Digits[d + 1] = c

\* the text of a sequence of these characters
Text(chars) == [i \in DOMAIN chars |-> ord(chars[i])]

Comma == ord(",")

Blank == ord(" ")

Underscore == ord("_")

Plus == ord("+")

Minus == ord("-")

Zero == ord("0")

\* str(n)
RECURSIVE Str(_)
Str(n) ==
    IF n < 0 THEN <<Minus>> \o Str(-n)
    ELSE IF n < 10 THEN <<Zero + n>>
    ELSE Str(n \div 10) \o <<Zero + (n % 10)>>

\* ",".join(map(str, state)) from element i on
RECURSIVE JoinFrom(_, _)
JoinFrom(state, i) ==
    IF i > Len(state) THEN <<>>
    ELSE (IF i > 1 THEN <<Comma>> ELSE <<>>) \o Str(state[i]) \o JoinFrom(state, i + 1)

\* lines 235, 310, 337, 349: the text written into the entry box for a board
Format(state) == JoinFrom(state, 1)

\* the characters str.isspace() holds for: tab, newline, vertical tab, form
\* feed, carriage return, the separators 28 to 31, the blank, and the
\* whitespace beyond ASCII (next line, no-break space, the spaces of the
\* general punctuation block, line and paragraph separator, ideographic space)
Whitespace ==
    (9 .. 13) \cup (28 .. 32) \cup {133, 160, 5760} \cup (8192 .. 8202)
        \cup {8232, 8233, 8239, 8287, 12288}

\* str.strip(): leading and trailing whitespace removed
RECURSIVE Strip(_)
Strip(text) ==
    IF text = <<>> THEN text
    ELSE IF Head(text) \in Whitespace THEN Strip(Tail(text))
    ELSE IF text[Len(text)] \in Whitespace THEN Strip(SubSeq(text, 1, Len(text) - 1))
    ELSE text

\* str.replace(" ", "")
RemoveSpaces(text) == SelectSeq(text, LAMBDA c : c # Blank)

\* str.split(','): the parts before position i are in parts, part is being read
RECURSIVE SplitFrom(_, _, _, _)
SplitFrom(text, i, part, parts) ==
    IF i > Len(text) THEN Append(parts, part)
    ELSE IF text[i] = Comma THEN SplitFrom(text, i + 1, <<>>, Append(parts, part))
    ELSE SplitFrom(text, i + 1, Append(part, text[i]), parts)

Split(text) == SplitFrom(text, 1, <<>>, <<>>)

\* the digit zero of every run of ten decimal digits of Unicode; the first
\* is the ASCII "0"
DecimalZeros ==
    { 48, 1632, 1776, 1984, 2406, 2534, 2662, 2790,
      2918, 3046, 3174, 3302, 3430, 3558, 3664, 3792,
      3872, 4160, 4240, 6112, 6160, 6470, 6608, 6784,
      6800, 6992, 7088, 7232, 7248, 42528, 43216, 43264,
      43472, 43504, 43600, 44016, 65296, 66720, 68912, 69734,
      69872, 69942, 70096, 70384, 70736, 70864, 71248, 71360,
      71472, 71904, 72016, 72784, 73040, 73120, 92768, 92864,
      93008, 120782, 120792, 120802, 120812, 120822, 123200, 123632,
      125264, 130032 }

\* the decimal digit a character stands for, or -1: int() reads the decimal
\* digits of every script
Decimal(c) ==
    IF c \in Zero .. Zero + 9 THEN c - Zero
    ELSE IF \E zero \in DecimalZeros : c \in zero .. zero + 9
    THEN c - (CHOOSE zero \in DecimalZeros : c \in zero .. zero + 9)
    ELSE -1

\* line 250: sys.int_info.default_max_str_digits, the longest number int() reads
MaxStrDigits == 4300

\* the whitespace int() skips around a number: of ASCII the tab, newline,
\* vertical tab, form feed, carriage return and blank, not the separators 28
\* to 31; and all whitespace beyond ASCII
IntSpace == (9 .. 13) \cup {Blank} \cup {c \in Whitespace : c >= 127}

RECURSIVE IntStrip(_)
IntStrip(p) ==
    IF p = <<>> THEN p
    ELSE IF Head(p) \in IntSpace THEN IntStrip(Tail(p))
    ELSE IF p[Len(p)] \in IntSpace THEN IntStrip(SubSeq(p, 1, Len(p) - 1))
    ELSE p

\* the value of a run of digits, read from the left
RECURSIVE DigitsValue(_, _, _)
DigitsValue(p, i, acc) ==
    IF i > Len(p) THEN acc
    ELSE DigitsValue(p, i + 1, 10 * acc + Decimal(p[i]))

\* what int(p) reads after the whitespace around p and an optional sign
IntBody(p) ==
    LET stripped == IntStrip(p)
    IN IF stripped # <<>> /\ stripped[1] \in {Plus, Minus} THEN Tail(stripped) ELSE stripped

\* the digits of int(p), the underscores left out
IntDigits(p) == SelectSeq(IntBody(p), LAMBDA c : c # Underscore)

\* int(p) raises ValueError unless p is, within whitespace, an optional sign
\* and digits, which single underscores may separate, and has no more than
\* sys.int_info.default_max_str_digits digits
IntRaises(p) ==
    LET body == IntBody(p)
    IN \/ body = <<>>
       \/ Decimal(body[1]) < 0
       \/ Decimal(body[Len(body)]) < 0
       \/ \E i \in DOMAIN body :
              \/ Decimal(body[i]) < 0 /\ body[i] # Underscore
              \/ body[i] = Underscore /\ body[i + 1] = Underscore
       \/ Len(IntDigits(p)) > MaxStrDigits

\* int(p)
IntOf(p) ==
    LET value == DigitsValue(IntDigits(p), 1, 0)
    IN IF IntStrip(p)[1] = Minus THEN 0 - value ELSE value

\* lines 243-254: the numbers read from the text, or ValueError
ParseNumbers(text) ==
    LET parts == SelectSeq(Split(RemoveSpaces(Strip(text))), LAMBDA p : p # <<>>)
        raised == \E i \in DOMAIN parts : IntRaises(parts[i])
    IN [raised |-> raised,
        nums |-> IF raised THEN <<>> ELSE [i \in DOMAIN parts |-> IntOf(parts[i])]]

\* sorted(nums)
RECURSIVE Insert(_, _)
Insert(x, s) ==
    IF s = <<>> THEN <<x>>
    ELSE IF x <= Head(s) THEN <<x>> \o s
    ELSE <<Head(s)>> \o Insert(x, Tail(s))

RECURSIVE Sorted(_)
Sorted(nums) == IF nums = <<>> THEN <<>> ELSE Insert(Head(nums), Sorted(Tail(nums)))

\* a validation that counts the numbers and looks no further
ValidNumbersByCount(nums) == Len(nums) = 9

\* lines 257-266: nine numbers that sort to 0..8
ValidNumbers(nums) == Len(nums) = 9 /\ Sorted(nums) = [i \in 1 .. 9 |-> i - 1]

\* The texts a user is let to have in the entry box when Set is pressed
InputTexts ==
    { Format(<<1, 2, 3, 4, 5, 0, 7, 8, 6>>),
      Format(OddTwin),
      Text(<<" ">>) \o Format(<<1, 2, 3, 4>>) \o Text(<<",", " ">>) \o Format(<<5, 6, 7, 0>>)
          \o Text(<<",", ",", " ", "8", ",", " ">>),
      Format(<<1, 2, 3, 4, 5, 6, 7, 8, 8>>),
      Format(<<1, 2, 3, 4, 5, 6, 7, 8, 9>>),
      Format(<<1, 2, 3, 4, 5, 6, 7, 8, 0, 0>>),
      Format(<<0, 1, 2, 3, 4, 5, 6, 7, -8>>),
      Format(<<1, 2, 3, 4, 5, 6, 7>>) \o Text(<<",", "8", " ", "0">>),
      Format(<<1, 2, 3, 4, 5, 6, 7, 8>>) \o Text(<<",", "x">>),
      \* tab, "+1,...,7,", tab, "0_0,8", newline
      <<9>> \o Text(<<"+">>) \o Format(<<1, 2, 3, 4, 5, 6, 7>>) \o <<Comma, 9>>
          \o Text(<<"0", "_", "0", ",", "8">>) \o <<10>>,
      Format(<<1, 2, 3, 4, 5, 6, 7, 8>>) \o Text(<<",", "0", "_", "_", "0">>),
      \* no-break space, "1,...,7,", Arabic-Indic digit eight, ",", no-break
      \* space, "0", next line
      <<160>> \o Format(<<1, 2, 3, 4, 5, 6, 7>>) \o <<Comma, 1640, Comma, 160>>
          \o Text(<<"0">>) \o <<133>>,
      \* "1,...,7,", the separator 28, "8,0"
      Format(<<1, 2, 3, 4, 5, 6, 7>>) \o <<Comma, 28>> \o Text(<<"8", ",", "0">>),
      <<>> }

-----------------------------------------------------------------------------
(* PuzzleGUI.__init__ *)

\* lines 160-236: the window as PuzzleGUI(initial, goal) constructs it
Constructed(initial, goal) ==
    /\ self_initial_state = initial
    /\ self_goal_state = goal
    /\ self_current_state = initial
    /\ solution_path = <<>>
    /\ animation_index = 0
    /\ allow_user_moves = TRUE
    /\ solve_button = "normal"
    /\ reset_button = "normal"
    /\ shuffle_button = "normal"
    /\ set_button = "normal"
    /\ input_entry = Format(initial)
    /\ scheduled = {}
    /\ events = 0
    /\ solves = <<>>
    /\ handled = <<>>
    /\ board_from = "main"
    /\ main_pc = "mainloop"

-----------------------------------------------------------------------------
(* solve_puzzle as a state machine *)

\* lines 107-109
StartNode(state, goal) ==
    LET made == PuzzleNode(state, 0, "None", 0)
        h == calculate_manhattan_distance(state, goal)
    IN [made EXCEPT !.h_cost = h, !.f_cost = made.g_cost + h]

NoPrev == [popped |-> <<>>, result_queue |-> <<>>, exception |-> ""]

Entry(input) ==
    /\ initial_state = input[1]
    /\ goal_state = input[2]
    /\ pc = "call"
    /\ exception = ""
    /\ result_queue = <<>>
    /\ nodes = <<>>
    /\ open_set = <<>>
    /\ unique_id = 0
    /\ closed_set = {}
    /\ open_set_g_costs = [s \in {} |-> 0]
    /\ current = 0
    /\ neighbors = <<>>
    /\ popped = <<>>
    /\ expanded = <<>>

Init ==
    /\ \E input \in Inputs : Entry(input)
    /\ run = 1
    /\ prev = NoPrev
    /\ probe = <<>>
    /\ Constructed(INITIAL_STATE, GOAL_STATE)

\* lines 93-103: an odd inversion count ends the call
ReturnUnsolvable ==
    /\ pc = "call"
    /\ ReportsUnsolvable(initial_state)
    /\ result_queue' = Append(result_queue, UnsolvableInfo)
    /\ pc' = "returned"
    /\ UNCHANGED <<gui_vars, initial_state, goal_state, exception, nodes, open_set, unique_id,
                   closed_set, open_set_g_costs, current, neighbors, popped, expanded,
                   run, prev, probe>>

\* lines 93-115: the check passes and the root is pushed
StartSearch ==
    /\ pc = "call"
    /\ ~ReportsUnsolvable(initial_state)
    /\ ~ManhattanRaises(initial_state, goal_state)
    /\ \E start_node \in {StartNode(initial_state, goal_state)} :
          /\ nodes' = <<start_node>>
          /\ open_set' = heappush(<<>>, <<start_node.f_cost, 0, 1>>, <<start_node>>)
    /\ unique_id' = 0
    /\ closed_set' = {}
    /\ open_set_g_costs' = [s \in {initial_state} |-> 0]
    /\ pc' = "loop"
    /\ UNCHANGED <<gui_vars, initial_state, goal_state, exception, result_queue, current, neighbors,
                   popped, expanded, run, prev, probe>>

\* lines 93-108: the check passes and the heuristic of the root raises KeyError
StartRaises ==
    /\ pc = "call"
    /\ ~ReportsUnsolvable(initial_state)
    /\ ManhattanRaises(initial_state, goal_state)
    /\ nodes' = <<PuzzleNode(initial_state, 0, "None", 0)>>
    /\ exception' = "KeyError"
    /\ pc' = "raised"
    /\ UNCHANGED <<gui_vars, initial_state, goal_state, result_queue, open_set, unique_id,
                   closed_set, open_set_g_costs, current, neighbors, popped, expanded,
                   run, prev, probe>>

\* lines 117, 147: the frontier is empty
Exhausted ==
    /\ pc = "loop"
    /\ open_set = <<>>
    /\ result_queue' = Append(result_queue, NoSolution)
    /\ pc' = "returned"
    /\ UNCHANGED <<gui_vars, initial_state, goal_state, exception, nodes, open_set, unique_id,
                   closed_set, open_set_g_costs, current, neighbors, popped, expanded,
                   run, prev, probe>>

\* lines 117-131: the popped node holds the goal
PopGoal ==
    /\ pc = "loop"
    /\ open_set # <<>>
    /\ \E top \in {heappop(open_set, nodes)} :
       \E current_node \in {top.item[3]} :
          /\ nodes[current_node].state = goal_state
          /\ open_set' = top.heap
          /\ current' = current_node
          /\ popped' = Append(popped, <<top.item[1], top.item[2], nodes[current_node].state>>)
          /\ result_queue' = Append(result_queue,
                                    SolutionInfo(reconstruct_path(nodes, current_node),
                                                 nodes[current_node].g_cost,
                                                 Cardinality(closed_set)))
    /\ pc' = "returned"
    /\ UNCHANGED <<gui_vars, initial_state, goal_state, exception, nodes, unique_id, closed_set,
                   open_set_g_costs, neighbors, expanded, run, prev, probe>>

\* lines 117-145: the popped node is closed and its neighbours are pushed
Expand ==
    /\ pc = "loop"
    /\ open_set # <<>>
    /\ \E top \in {heappop(open_set, nodes)} :
       \E current_node \in {top.item[3]} :
       \E got \in {get_neighbors(current_node, nodes[current_node], goal_state)} :
       \E closed \in {closed_set \cup {nodes[current_node].state}} :
       \E arena \in {nodes \o got.nodes} :
       \E pushed \in {PushNeighbors(got.nodes, 1, Len(nodes), closed, arena,
                                    [g_costs |-> open_set_g_costs,
                                     unique_id |-> unique_id,
                                     open_set |-> top.heap])} :
          /\ nodes[current_node].state # goal_state
          /\ got.raised = ""
          /\ current' = current_node
          /\ popped' = Append(popped, <<top.item[1], top.item[2], nodes[current_node].state>>)
          /\ closed_set' = closed
          /\ expanded' = Append(expanded, nodes[current_node].state)
          /\ nodes' = arena
          /\ neighbors' = [k \in 1 .. Len(got.nodes) |-> Len(nodes) + k]
          /\ open_set' = pushed.open_set
          /\ open_set_g_costs' = pushed.g_costs
          /\ unique_id' = pushed.unique_id
    /\ UNCHANGED <<gui_vars, initial_state, goal_state, pc, exception, result_queue, run, prev, probe>>

\* lines 117-135: get_neighbors raises on the popped node
ExpandRaises ==
    /\ pc = "loop"
    /\ open_set # <<>>
    /\ \E top \in {heappop(open_set, nodes)} :
       \E current_node \in {top.item[3]} :
       \E got \in {get_neighbors(current_node, nodes[current_node], goal_state)} :
          /\ nodes[current_node].state # goal_state
          /\ got.raised # ""
          /\ open_set' = top.heap
          /\ current' = current_node
          /\ popped' = Append(popped, <<top.item[1], top.item[2], nodes[current_node].state>>)
          /\ closed_set' = closed_set \cup {nodes[current_node].state}
          /\ expanded' = Append(expanded, nodes[current_node].state)
          /\ nodes' = nodes \o got.nodes
          /\ exception' = got.raised
    /\ pc' = "raised"
    /\ UNCHANGED <<gui_vars, initial_state, goal_state, result_queue, unique_id, open_set_g_costs,
                   neighbors, run, prev, probe>>

\* solve_puzzle is called once more on the same arguments, with a fresh queue
SecondCall ==
    /\ pc \in {"returned", "raised"}
    /\ run = 1
    /\ run' = 2
    /\ prev' = [popped |-> popped, result_queue |-> result_queue, exception |-> exception]
    /\ pc' = "call"
    /\ exception' = ""
    /\ result_queue' = <<>>
    /\ nodes' = <<>>
    /\ open_set' = <<>>
    /\ unique_id' = 0
    /\ closed_set' = {}
    /\ open_set_g_costs' = [s \in {} |-> 0]
    /\ current' = 0
    /\ neighbors' = <<>>
    /\ popped' = <<>>
    /\ expanded' = <<>>
    /\ UNCHANGED <<gui_vars, initial_state, goal_state, probe>>

Next ==
    \/ ReturnUnsolvable
    \/ StartSearch
    \/ StartRaises
    \/ Exhausted
    \/ PopGoal
    \/ Expand
    \/ ExpandRaises
    \/ SecondCall

Spec == Init /\ [][Next]_vars

-----------------------------------------------------------------------------
(* Exploration of the boards that legal moves produce, one move per step as  *)
(* in the loop of shuffle_board (which starts from the goal and picks any     *)
(* valid move each time), from the goal and from its odd twin.                *)

\* the cells a blank is exchanged with when the move down is two cells ahead
valid_moves_skewed(state) ==
    LET blank_index == BlankIndex(state)
        blank_row == blank_index \div 3
        blank_col == blank_index % 3
    IN (IF blank_row > 0 THEN <<blank_index - 3>> ELSE <<>>)
           \o (IF blank_row < 2 THEN <<blank_index + 2>> ELSE <<>>)
           \o (IF blank_col > 0 THEN <<blank_index - 1>> ELSE <<>>)
           \o (IF blank_col < 2 THEN <<blank_index + 1>> ELSE <<>>)

\* lines 321-328 of shuffle_board: the cells the blank may be exchanged with
valid_moves(state) ==
    LET blank_index == BlankIndex(state)
        blank_row == blank_index \div 3
        blank_col == blank_index % 3
    IN (IF blank_row > 0 THEN <<blank_index - 3>> ELSE <<>>)
           \o (IF blank_row < 2 THEN <<blank_index + 3>> ELSE <<>>)
           \o (IF blank_col > 0 THEN <<blank_index - 1>> ELSE <<>>)
           \o (IF blank_col < 2 THEN <<blank_index + 1>> ELSE <<>>)

\* the exploration starts on the board `origin`, kept in initial_state
InitProbe(origin) ==
    /\ probe = origin
    /\ initial_state = origin
    /\ goal_state = GOAL_STATE
    /\ pc = "probe"
    /\ exception = ""
    /\ result_queue = <<>>
    /\ nodes = <<>>
    /\ open_set = <<>>
    /\ unique_id = 0
    /\ closed_set = {}
    /\ open_set_g_costs = [s \in {} |-> 0]
    /\ current = 0
    /\ neighbors = <<>>
    /\ popped = <<>>
    /\ expanded = <<>>
    /\ run = 1
    /\ prev = NoPrev
    /\ Constructed(INITIAL_STATE, GOAL_STATE)

InitReach == Init \/ InitProbe(GOAL_STATE) \/ InitProbe(OddTwin)

InitReachGoal == Init \/ InitProbe(GOAL_STATE)

\* what get_neighbors returns on a root node holding the board
NeighborsOf(board) == get_neighbors(0, PuzzleNode(board, 0, "None", 0), GOAL_STATE)

\* lines 321-331 of shuffle_board: one move, any of the valid ones
ProbeStep ==
    /\ pc = "probe"
    /\ \E swap_index \in Range(valid_moves(probe)) :
           probe' = SwapAt(probe, BlankIndex(probe), swap_index)
    /\ UNCHANGED <<gui_vars, initial_state, goal_state, pc, exception, result_queue, nodes, open_set,
                   unique_id, closed_set, open_set_g_costs, current, neighbors, popped,
                   expanded, run, prev>>

NextReach == Next \/ ProbeStep

SpecReach == InitReach /\ [][NextReach]_vars

\* the exploration from the goal alone; the call of solve_puzzle runs until it
\* returns or raises
SpecReachFair == InitReachGoal /\ [][NextReach]_vars /\ WF_vars(Next)

-----------------------------------------------------------------------------
(* PuzzleGUI.shuffle_board *)

\* line 320
ShuffleRounds == 100

\* line 330: random.choice(seq), when the generator draws the index `below`
\* (0 <= below < len(seq))
choice(seq, below) == seq[below + 1]

\* lines 321-331: the boards one round of the loop can leave, when it holds
\* one of `states` before it and draws one of the indices `belows`
ShuffleRound(states, belows) ==
    UNION {{SwapAt(state, BlankIndex(state), choice(valid_moves(state), below)) :
               below \in {b \in belows : b < Len(valid_moves(state))}} : state \in states}

\* lines 320-331: the boards the rounds first .. last of the loop can leave,
\* round r drawing an index of draws[r + 1]; the earlier half of the rounds is
\* worked out, then the later half is applied to the boards it leaves
RECURSIVE ShuffleSpan(_, _, _, _)
ShuffleSpan(states, draws, first, last) ==
    IF first > last THEN states
    ELSE IF first = last THEN ShuffleRound(states, draws[first + 1])
    ELSE CHOOSE result \in
             {ShuffleSpan(half, draws, ((first + last) \div 2) + 1, last) :
                 half \in {ShuffleSpan(states, draws, first, (first + last) \div 2)}} : TRUE

\* lines 319-331: the boards the loop can end on, started on the board `goal`
ShuffleFrom(goal, draws) == ShuffleSpan({goal}, draws, 0, ShuffleRounds - 1)

\* the index random.choice draws in each of the 100 rounds after
\* random.seed(40); the loop ends on (1,5,0,4,8,2,7,6,3)
DrawsOfSeed40 ==
    <<1, 2, 0, 0, 1, 2, 0, 0, 1, 1, 1, 0, 1, 0, 1, 2, 1, 0, 1, 2, 1, 0, 2, 1, 0,
      2, 0, 1, 0, 1, 1, 0, 1, 1, 0, 2, 2, 2, 2, 1, 0, 2, 1, 1, 1, 2, 0, 0, 0, 2,
      0, 0, 3, 2, 2, 0, 0, 0, 1, 1, 0, 1, 1, 2, 1, 1, 0, 0, 0, 0, 1, 0, 3, 0, 1,
      0, 0, 1, 1, 2, 0, 0, 1, 2, 0, 0, 0, 1, 1, 2, 0, 0, 1, 0, 1, 0, 1, 0, 0, 2>>

\* What the generator is let to draw in the rounds of a shuffle, a set of
\* indices for each round: index 0 in every round but the last FreePicks,
\* which draw any index; or the recorded run
Draws ==
    { [round \in 1 .. ShuffleRounds |->
          IF round <= ShuffleRounds - FreePicks THEN {0} ELSE 0 .. 3],
      [round \in 1 .. ShuffleRounds |-> {DrawsOfSeed40[round]}] }

-----------------------------------------------------------------------------
(* PuzzleGUI: the window, its handlers, and the solver thread it starts.     *)
(* The handlers run one at a time on the main loop; the thread takes the     *)
(* steps of solve_puzzle between them.  The tile labels always show          *)
(* current_state (update_board_display writes both) and are not kept apart;  *)
(* the status label and the message boxes are left out.                      *)

\* lines 438-439: the window is up, no solver thread has been started
InitGUI ==
    /\ Constructed(INITIAL_STATE, GOAL_STATE)
    /\ initial_state = <<>>
    /\ goal_state = <<>>
    /\ pc = "idle"
    /\ exception = ""
    /\ result_queue = <<>>
    /\ nodes = <<>>
    /\ open_set = <<>>
    /\ unique_id = 0
    /\ closed_set = {}
    /\ open_set_g_costs = [s \in {} |-> 0]
    /\ current = 0
    /\ neighbors = <<>>
    /\ popped = <<>>
    /\ expanded = <<>>
    /\ run = 1
    /\ prev = NoPrev
    /\ probe = <<>>

\* the locals of a call of solve_puzzle that has not begun or has ended
FreshFrame ==
    /\ exception' = ""
    /\ nodes' = <<>>
    /\ open_set' = <<>>
    /\ unique_id' = 0
    /\ closed_set' = {}
    /\ open_set_g_costs' = [s \in {} |-> 0]
    /\ current' = 0
    /\ neighbors' = <<>>
    /\ popped' = <<>>
    /\ expanded' = <<>>

thread_vars == <<initial_state, goal_state, pc, exception, nodes, open_set, unique_id,
                 closed_set, open_set_g_costs, current, neighbors, popped, expanded>>

\* the main thread is between two callbacks and stays there
MainLoop == main_pc = "mainloop" /\ UNCHANGED main_pc

\* one more event of the user
UserEvent == events < MaxEvents /\ events' = events + 1

\* lines 343-354: reset_board, called when self.initial_state is `initial`
ResetBoard(initial) ==
    /\ self_current_state' = initial
    /\ solution_path' = <<>>
    /\ animation_index' = 0
    /\ allow_user_moves' = TRUE
    /\ input_entry' = Format(initial)
    /\ solve_button' = "normal"
    /\ shuffle_button' = "normal"
    /\ set_button' = "normal"

\* lines 239-273: Set is pressed with `text` in the entry box
\* (the dialogs of lines 252, 258 and 264 are the last statement the handler
\* runs: it changes nothing after they are closed)
set_board_from_input(text) ==
    /\ MainLoop
    /\ set_button = "normal"
    /\ UserEvent
    /\ \E parsed \in {ParseNumbers(text)} :
          IF allow_user_moves /\ ~parsed.raised /\ ValidNumbers(parsed.nums)
          THEN /\ self_initial_state' = parsed.nums
               /\ ResetBoard(parsed.nums)
               /\ board_from' = "set"
          ELSE /\ input_entry' = text
               /\ UNCHANGED <<self_initial_state, self_current_state, solution_path,
                              animation_index, allow_user_moves, solve_button,
                              shuffle_button, set_button, board_from>>
    /\ UNCHANGED <<self_goal_state, reset_button, scheduled, solves, handled,
                   thread_vars, result_queue, run, prev, probe>>

\* lines 290-311: the tile label at clicked_index is clicked
on_tile_click(clicked_index) ==
    /\ MainLoop
    /\ UserEvent
    /\ \E blank_index \in {BlankIndex(self_current_state)} :
          LET clicked_row == clicked_index \div 3
              clicked_col == clicked_index % 3
              blank_row == blank_index \div 3
              blank_col == blank_index % 3
              is_adjacent == Abs(clicked_row - blank_row) + Abs(clicked_col - blank_col) = 1
          IN IF allow_user_moves /\ is_adjacent
             THEN \E state \in {SwapAt(self_current_state, blank_index, clicked_index)} :
                     /\ self_current_state' = state
                     /\ self_initial_state' = state
                     /\ input_entry' = Format(state)
                     /\ board_from' = "click"
             ELSE UNCHANGED <<self_current_state, self_initial_state, input_entry, board_from>>
    /\ UNCHANGED <<self_goal_state, solution_path, animation_index, allow_user_moves,
                   solve_button, reset_button, shuffle_button, set_button, scheduled,
                   solves, handled, thread_vars, result_queue, run, prev, probe>>

\* lines 314-338: Shuffle is pressed, and in round r of the loop random.choice
\* draws an index of draws[r + 1]
shuffle_board(draws) ==
    /\ MainLoop
    /\ shuffle_button = "normal"
    /\ UserEvent
    /\ allow_user_moves' = TRUE
    /\ solve_button' = "normal"
    /\ \E state \in ShuffleFrom(self_goal_state, draws) :
          /\ self_current_state' = state
          /\ self_initial_state' = state
          /\ input_entry' = Format(state)
    /\ board_from' = "shuffle"
    /\ UNCHANGED <<self_goal_state, solution_path, animation_index, reset_button,
                   shuffle_button, set_button, scheduled, solves, handled,
                   thread_vars, result_queue, run, prev, probe>>

\* lines 341-354: Reset is pressed
reset_board ==
    /\ MainLoop
    /\ reset_button = "normal"
    /\ UserEvent
    /\ ResetBoard(self_initial_state)
    /\ UNCHANGED <<self_initial_state, self_goal_state, reset_button, scheduled, solves,
                   handled, board_from, thread_vars, result_queue, run, prev, probe>>

\* the states start_solve_thread leaves all buttons in, but for Shuffle
SolvingButtonsButShuffle ==
    [solve |-> "disabled", reset |-> "disabled", shuffle |-> "normal", set |-> "disabled"]

\* lines 363-366: the states start_solve_thread leaves the buttons in
SolvingButtons ==
    [solve |-> "disabled", reset |-> "disabled", shuffle |-> "disabled", set |-> "disabled"]

\* lines 357-373: Solve is pressed; the thread begins solve_puzzle on
\* (self.current_state, self.goal_state, self.solver_queue) and takes its
\* steps while the handler is still to register the poll
start_solve_thread ==
    /\ main_pc = "mainloop"
    /\ solve_button = "normal"
    /\ UserEvent
    /\ allow_user_moves' = FALSE
    /\ solve_button' = SolvingButtons.solve
    /\ reset_button' = SolvingButtons.reset
    /\ shuffle_button' = SolvingButtons.shuffle
    /\ set_button' = SolvingButtons.set
    /\ initial_state' = self_current_state
    /\ goal_state' = self_goal_state
    /\ pc' = "call"
    /\ FreshFrame
    /\ main_pc' = "374"
    /\ solves' = Append(solves, [board |-> self_current_state, from |-> board_from])
    /\ UNCHANGED <<self_initial_state, self_goal_state, self_current_state, solution_path,
                   animation_index, input_entry, scheduled, handled, board_from,
                   result_queue, run, prev, probe>>

\* line 374: the handler registers check_solution_queue and returns
start_solve_thread_after ==
    /\ main_pc = "374"
    /\ main_pc' = "mainloop"
    /\ scheduled' = scheduled \cup {"check_solution_queue"}
    /\ UNCHANGED <<self_initial_state, self_goal_state, self_current_state, solution_path,
                   animation_index, allow_user_moves, solve_button, reset_button,
                   shuffle_button, set_button, input_entry, events, solves, handled,
                   board_from, thread_vars, result_queue, run, prev, probe>>

\* lines 405-417: the body of animate_solution on the path and index given;
\* timers are the callbacks left scheduled besides animate_solution
Animate(path, index, timers) ==
    IF index < Len(path)
    THEN /\ self_current_state' = path[index + 1]
         /\ animation_index' = index + 1
         /\ scheduled' = timers \cup {"animate_solution"}
         /\ allow_user_moves' = FALSE
         /\ UNCHANGED <<reset_button, shuffle_button, set_button>>
    ELSE /\ reset_button' = "normal"
         /\ shuffle_button' = "normal"
         /\ set_button' = "normal"
         /\ allow_user_moves' = TRUE
         /\ animation_index' = index
         /\ scheduled' = timers
         /\ UNCHANGED self_current_state

\* a look at the head of the queue that leaves it there
peek_nowait(queue) == [item |-> Head(queue), queue |-> queue]

\* line 383: queue.get_nowait() on a queue that is not empty
get_nowait(queue) == [item |-> Head(queue), queue |-> Tail(queue)]

\* lines 377-400: the timer runs check_solution_queue and the queue holds a
\* result (on queue.Empty the callback schedules itself again and nothing
\* changes).  A solution is animated at once; on the other results the handler
\* opens the dialog of line 386 or 396 and waits in it
check_solution_queue ==
    /\ main_pc = "mainloop"
    /\ "check_solution_queue" \in scheduled
    /\ result_queue # <<>>
    /\ \E got \in {get_nowait(result_queue)} :
       \E solution_info \in {got.item} :
          /\ result_queue' = got.queue
          /\ handled' = Append(handled, solution_info)
          /\ IF "none" \notin DOMAIN solution_info /\ solution_info.unsolvable
             THEN /\ main_pc' = "386"
                  /\ scheduled' = scheduled \ {"check_solution_queue"}
                  /\ UNCHANGED <<self_current_state, solution_path, animation_index,
                                 allow_user_moves, solve_button, reset_button,
                                 shuffle_button, set_button, input_entry>>
             ELSE IF "none" \notin DOMAIN solution_info
             THEN /\ solution_path' = solution_info.path
                  /\ Animate(solution_info.path, 0, scheduled \ {"check_solution_queue"})
                  /\ UNCHANGED <<main_pc, solve_button, input_entry>>
             ELSE /\ main_pc' = "396"
                  /\ scheduled' = scheduled \ {"check_solution_queue"}
                  /\ UNCHANGED <<self_current_state, solution_path, animation_index,
                                 allow_user_moves, solve_button, reset_button,
                                 shuffle_button, set_button, input_entry>>
    /\ UNCHANGED <<self_initial_state, self_goal_state, events, solves, board_from,
                   thread_vars, run, prev, probe>>

\* the handler waits in the dialog of line 386 or of line 396
InDialog == main_pc \in {"386", "396"}

\* lines 387, 397: the user closes the dialog and the handler runs reset_board
check_solution_queue_after ==
    /\ InDialog
    /\ main_pc' = "mainloop"
    /\ ResetBoard(self_initial_state)
    /\ UNCHANGED <<self_initial_state, self_goal_state, reset_button, scheduled, events,
                   solves, handled, board_from, thread_vars, result_queue, run, prev,
                   probe>>

\* lines 403-417: the timer runs animate_solution
animate_solution ==
    /\ MainLoop
    /\ "animate_solution" \in scheduled
    /\ Animate(solution_path, animation_index, scheduled \ {"animate_solution"})
    /\ UNCHANGED <<self_initial_state, self_goal_state, solution_path, solve_button,
                   input_entry, events, solves, handled, board_from, thread_vars,
                   result_queue, run, prev, probe>>

\* the thread ends after solve_puzzle has returned; its locals are gone
ThreadEnds ==
    /\ pc = "returned"
    /\ pc' = "idle"
    /\ initial_state' = <<>>
    /\ goal_state' = <<>>
    /\ FreshFrame
    /\ UNCHANGED <<result_queue, run, prev, probe, gui_vars>>

\* the steps of the solver thread
Thread ==
    \/ ReturnUnsolvable
    \/ StartSearch
    \/ PopGoal
    \/ Expand
    \/ ThreadEnds

\* the callbacks the main loop runs from its timers
Timers ==
    \/ check_solution_queue
    \/ animate_solution

NextGUI ==
    \/ \E text \in InputTexts : set_board_from_input(text)
    \/ \E clicked_index \in 0 .. 8 : on_tile_click(clicked_index)
    \/ \E draws \in Draws : shuffle_board(draws)
    \/ reset_board
    \/ start_solve_thread
    \/ start_solve_thread_after
    \/ check_solution_queue
    \/ check_solution_queue_after
    \/ animate_solution
    \/ ReturnUnsolvable
    \/ StartSearch
    \/ PopGoal
    \/ Expand
    \/ ThreadEnds

SpecGUI == InitGUI /\ [][NextGUI]_vars

\* the steps that wait for no act of the user but the closing of a dialog:
\* those of the thread, of a handler that has begun, and of the timers
Running ==
    \/ Thread
    \/ start_solve_thread_after
    \/ Timers
    \/ check_solution_queue_after

\* the program does not stop while one of these steps can be taken; the user
\* owes nothing else
SpecGUIFair == SpecGUI /\ WF_vars(Running)

\* the window, and beside it the exploration of the boards legal moves reach
\* from the goal, which the window takes no part in
InitShuffle == InitGUI \/ InitProbe(GOAL_STATE)

NextShuffle == (pc # "probe" /\ NextGUI) \/ ProbeStep

SpecShuffle == InitShuffle /\ [][NextShuffle]_vars

-----------------------------------------------------------------------------
(* Vocabulary of the properties *)

IsSolved(r) == "path" \in DOMAIN r

IsUnsolvable(r) == "unsolvable" \in DOMAIN r /\ r.unsolvable

IsNone(r) == "none" \in DOMAIN r

Canonical == goal_state = GOAL_STATE /\ IsPermutation(initial_state)

\* the number of pairs of non-blank tiles that stand in the wrong order
InversionCount(board) ==
    Cardinality({ij \in (DOMAIN board) \X (DOMAIN board) :
                    /\ ij[1] < ij[2]
                    /\ board[ij[1]] # 0
                    /\ board[ij[2]] # 0
                    /\ board[ij[1]] > board[ij[2]]})

\* a path of legal moves from one board to another
LegalPath(path, from, to) ==
    /\ Len(path) >= 1
    /\ path[1] = from
    /\ path[Len(path)] = to
    /\ \A k \in 1 .. Len(path) - 1 : path[k + 1] \in LegalMoves(path[k])

-----------------------------------------------------------------------------
\* C1: for a start from which the canonical goal can be reached, the call
\* returns a solution whose 'moves' is the breadth-first distance from the
\* start to the goal in the blank-move graph.
MovesAreShortest ==
    (pc = "returned" /\ goal_state = GOAL_STATE /\ initial_state \in EvenStarts) =>
        /\ Len(result_queue) = 1
        /\ IsSolved(result_queue[1])
        /\ result_queue[1].moves = ShortestDistance(initial_state, goal_state)

MovesAreShortestWitness ==
    /\ pc = "returned"
    /\ goal_state = GOAL_STATE
    /\ initial_state \in EvenStarts
    /\ result_queue # <<>>
    /\ IsSolved(result_queue[1])
    /\ result_queue[1].moves > ScrambleDepth

\* C2: the path of a solved result starts with the start configuration, ends
\* with the goal configuration, and each step of it is one legal move.
PathIsLegal ==
    \A i \in DOMAIN result_queue :
        IsSolved(result_queue[i]) =>
            LegalPath(result_queue[i].path, initial_state, goal_state)

PathIsLegalWitness ==
    /\ pc = "returned"
    /\ result_queue # <<>>
    /\ IsSolved(result_queue[1])
    /\ Len(result_queue[1].path) > ScrambleDepth + 1

\* C3: on a permutation of 0..8 the call reports unsolvable exactly when the
\* inversion count of the non-blank tiles is odd, and then it has created no
\* node, pushed nothing to the frontier and expanded nothing.
ParityDecides ==
    (IsPermutation(initial_state) /\ pc \in {"loop", "returned", "raised"}) =>
        /\ (result_queue = <<UnsolvableInfo>>) <=> (InversionCount(initial_state) % 2 = 1)
        /\ (InversionCount(initial_state) % 2 = 1) =>
               /\ pc = "returned"
               /\ nodes = <<>>
               /\ open_set = <<>>
               /\ open_set_g_costs = <<>>
               /\ closed_set = {}
               /\ popped = <<>>
               /\ expanded = <<>>

ParityDecidesWitness ==
    /\ pc = "returned"
    /\ IsPermutation(initial_state)
    /\ result_queue = <<UnsolvableInfo>>
    /\ InversionCount(initial_state) > 1
    /\ nodes = <<>>

\* On every board the exploration reaches from the goal (the boards from which
\* the goal can be reached, moves being reversible) the solvability check does
\* not report unsolvable and the inversion count is even; for a permutation and
\* the canonical goal the call puts either a solution along legal moves, for a
\* start built by legal moves from the goal, or unsolvable, for a start with an
\* odd inversion count.
OutcomeMatchesReachability ==
    /\ (pc = "probe" /\ initial_state = GOAL_STATE) =>
           ~ReportsUnsolvable(probe) /\ InversionCount(probe) % 2 = 0
    /\ (pc \in {"loop", "returned", "raised"} /\ Canonical /\ initial_state \in OddStarts) =>
           InversionCount(initial_state) % 2 = 1
    /\ (pc \in {"loop", "returned", "raised"} /\ Canonical) =>
           /\ pc # "raised"
           /\ \A i \in DOMAIN result_queue : ~IsNone(result_queue[i])
           /\ pc = "returned" =>
                  /\ Len(result_queue) = 1
                  /\ initial_state \in EvenStarts =>
                         /\ IsSolved(result_queue[1])
                         /\ LegalPath(result_queue[1].path, initial_state, GOAL_STATE)
                  /\ initial_state \in OddStarts => IsUnsolvable(result_queue[1])
                  /\ IsSolved(result_queue[1]) => initial_state \in EvenStarts
                  /\ IsUnsolvable(result_queue[1]) => initial_state \in OddStarts

\* C4: with the canonical goal and a permutation as start the call terminates,
\* with a solved result exactly when the goal can be reached from the start and
\* the unsolvable result exactly when it cannot, and never with None.
TerminatesWithTrueOutcome ==
    /\ []OutcomeMatchesReachability
    /\ (pc = "call" /\ Canonical) ~> (pc = "returned")

TerminatesWithTrueOutcomeWitness ==
    /\ pc = "returned"
    /\ run = 2
    /\ Canonical
    /\ initial_state \in OddStarts \ {OddTwin}
    /\ IsUnsolvable(result_queue[1])

\* C5: called with the same permutation as start and as goal, the call
\* returns a solved result with the one-element path, 0 moves and 0 explored.
StartIsGoalSolved ==
    (pc = "returned" /\ IsPermutation(initial_state) /\ goal_state = initial_state) =>
        result_queue = <<SolutionInfo(<<initial_state>>, 0, 0)>>

\* C6: a start that is not a permutation of 0..8 is rejected as an invalid
\* configuration: nothing is created, pushed, popped or put on the queue for it.
InvalidStartRejected ==
    ~IsPermutation(initial_state) =>
        /\ nodes = <<>>
        /\ open_set = <<>>
        /\ popped = <<>>
        /\ result_queue = <<>>
        /\ pc = "call" \/ (pc = "raised" /\ exception = "InvalidConfiguration")

\* the sum over the tiles 1..8 of the grid distance between the cell a tile
\* occupies on the board and the cell it occupies in the goal
RECURSIVE TileDistanceFrom(_, _, _)
TileDistanceFrom(board, goal, tile) ==
    IF tile > 8 THEN 0
    ELSE LET p == CHOOSE i \in 0 .. 8 : board[i + 1] = tile
             q == CHOOSE i \in 0 .. 8 : goal[i + 1] = tile
         IN Abs((p \div 3) - (q \div 3)) + Abs((p % 3) - (q % 3))
                + TileDistanceFrom(board, goal, tile + 1)

\* C7: the move count of a solved result is the length of its path minus one
\* and the g-cost of the node popped as the goal; every node created has g 0
\* at the root and its parent's g plus 1 otherwise, and f = g + the Manhattan
\* distance of its configuration to the goal.
CostsAreConsistent ==
    IsPermutation(initial_state) =>
        /\ \A i \in DOMAIN result_queue :
               IsSolved(result_queue[i]) =>
                   /\ result_queue[i].moves = Len(result_queue[i].path) - 1
                   /\ result_queue[i].moves = nodes[current].g_cost
                   /\ nodes[current].state = goal_state
        /\ \A n \in DOMAIN nodes :
               /\ nodes[n].parent < n
               /\ nodes[n].g_cost = IF nodes[n].parent = 0 THEN 0
                                    ELSE nodes[nodes[n].parent].g_cost + 1
               /\ nodes[n].h_cost = TileDistanceFrom(nodes[n].state, goal_state, 1)
               /\ nodes[n].f_cost = nodes[n].g_cost + nodes[n].h_cost
               /\ nodes[n].parent = 0 <=> n = 1

CostsAreConsistentWitness ==
    /\ pc = "returned"
    /\ result_queue # <<>>
    /\ IsSolved(result_queue[1])
    /\ result_queue[1].moves > ScrambleDepth
    /\ Len(nodes) > 20
    /\ nodes[current].g_cost = Len(result_queue[1].path) - 1

\* C8: no configuration is expanded twice, so the expansions are as many as
\* the closed set holds configurations.
NeverExpandedTwice ==
    /\ \A i, j \in DOMAIN expanded : expanded[i] = expanded[j] => i = j
    /\ Len(expanded) = Cardinality(closed_set)

\* the successors a board must have: for each of UP, DOWN, LEFT, RIGHT, in this
\* order, that keeps the blank on the grid, the board with the blank exchanged
\* with the tile in that direction
ExpectedSuccessors(board) ==
    LET b == CHOOSE p \in 0 .. 8 : board[p + 1] = 0
    IN (IF b \div 3 > 0 THEN << <<"UP", SwapAt(board, b, b - 3)>> >> ELSE <<>>)
           \o (IF b \div 3 < 2 THEN << <<"DOWN", SwapAt(board, b, b + 3)>> >> ELSE <<>>)
           \o (IF b % 3 > 0 THEN << <<"LEFT", SwapAt(board, b, b - 1)>> >> ELSE <<>>)
           \o (IF b % 3 < 2 THEN << <<"RIGHT", SwapAt(board, b, b + 1)>> >> ELSE <<>>)

\* 2 successors with the blank in a corner, 4 in the centre, 3 on an edge
ExpectedCount(board) ==
    LET b == CHOOSE p \in 0 .. 8 : board[p + 1] = 0
    IN IF b \in {0, 2, 6, 8} THEN 2 ELSE IF b = 4 THEN 4 ELSE 3

\* the succs returned for the board are the expected ones, in order
SuccessorsAsClaimed(board, succs) ==
    /\ Len(succs) = ExpectedCount(board)
    /\ [k \in DOMAIN succs |-> <<succs[k].move, succs[k].state>>] = ExpectedSuccessors(board)
    /\ \A k \in DOMAIN succs : succs[k].state \in LegalMoves(board)

\* C9: get_neighbors on a permutation returns 2, 3 or 4 successors for a blank
\* in a corner, on an edge or in the centre, each the board with the blank
\* exchanged with an orthogonally adjacent tile, in the order UP, DOWN, LEFT,
\* RIGHT; checked on every board the exploration visits and on every node a
\* search expands.
NeighborsAsClaimed ==
    /\ pc = "probe" =>
           \E got \in {NeighborsOf(probe)} :
               got.raised = "" /\ SuccessorsAsClaimed(probe, got.nodes)
    /\ (pc = "loop" /\ current # 0 /\ IsPermutation(initial_state)) =>
           SuccessorsAsClaimed(nodes[current].state,
                               [k \in DOMAIN neighbors |-> nodes[neighbors[k]]])

NeighborsAsClaimedWitness ==
    /\ pc = "probe"
    /\ initial_state = OddTwin
    /\ probe[5] = 0
    /\ Len(NeighborsOf(probe).nodes) = 4
    /\ InversionCount(probe) > 20

\* the entry of the frontier that is least on (f_cost, unique_id) alone
KeyBelow(a, b) == a[1] < b[1] \/ (a[1] = b[1] /\ a[2] < b[2])

\* no two entries of the frontier agree on (f_cost, unique_id)
KeysAreDistinct ==
    \A i, j \in DOMAIN open_set :
        (open_set[i][1] = open_set[j][1] /\ open_set[i][2] = open_set[j][2]) => i = j

\* a step that pops an entry pops the one strictly below every other entry of
\* the frontier on (f_cost, unique_id)
PopsLeastKey ==
    (pc = "loop" /\ Len(popped') = Len(popped) + 1) =>
        \E i \in DOMAIN open_set :
            /\ popped'[Len(popped')] = <<open_set[i][1], open_set[i][2],
                                         nodes[open_set[i][3]].state>>
            /\ \A j \in DOMAIN open_set \ {i} : KeyBelow(open_set[i], open_set[j])

\* C10: a second call on the same (start, goal) pops the same entries in the
\* same order and ends with the same result as the first; the order of the
\* pops is fixed by the (f_cost, unique_id) keys alone, which never tie, so
\* neither the comparison of nodes nor the layout of the heap bears on it.
RunsAgree ==
    /\ [](run = 2 =>
            /\ Len(popped) <= Len(prev.popped)
            /\ popped = SubSeq(prev.popped, 1, Len(popped))
            /\ pc \in {"returned", "raised"} =>
                   /\ popped = prev.popped
                   /\ result_queue = prev.result_queue
                   /\ exception = prev.exception)
    /\ []KeysAreDistinct
    /\ [][PopsLeastKey]_vars

RunsAgreeWitness ==
    /\ run = 2
    /\ pc = "returned"
    /\ Len(popped) > 30
    /\ result_queue = prev.result_queue
    /\ IsSolved(result_queue[1])


\* C11: on every permutation reached by the exploration (all of them: the boards
\* built from the goal and those built from its odd twin) the Manhattan distance
\* to the canonical goal is a natural number, is 0 exactly on the goal, and is
\* the sum of the grid distances of the tiles 1..8 alone: the blank adds nothing.
ManhattanIsTileSum ==
    pc = "probe" =>
        \E h \in {calculate_manhattan_distance(probe, GOAL_STATE)} :
            /\ h \in Nat
            /\ h = 0 <=> probe = GOAL_STATE
            /\ h = TileDistanceFrom(probe, GOAL_STATE, 1)

ManhattanIsTileSumWitness ==
    /\ pc = "probe"
    /\ probe[1] = 0
    /\ calculate_manhattan_distance(probe, GOAL_STATE) >= 20

\* C14: on every permutation the heuristic of each successor get_neighbors
\* returns differs by exactly 1 from the heuristic of the board, and the
\* heuristic of a start from which the goal can be reached is at most the
\* breadth-first distance from the start to the goal.
HeuristicIsConsistent ==
    /\ pc = "probe" =>
           \E got \in {NeighborsOf(probe)} :
           \E h \in {calculate_manhattan_distance(probe, GOAL_STATE)} :
               \A k \in DOMAIN got.nodes :
                   /\ Abs(got.nodes[k].h_cost - h) = 1
                   /\ h <= 1 + got.nodes[k].h_cost
    /\ (pc = "call" /\ run = 1 /\ goal_state = GOAL_STATE /\ initial_state \in EvenStarts) =>
           calculate_manhattan_distance(initial_state, GOAL_STATE)
               <= ShortestDistance(initial_state, GOAL_STATE)

HeuristicIsConsistentWitness ==
    /\ pc = "probe"
    /\ probe[5] = 0
    /\ calculate_manhattan_distance(probe, GOAL_STATE) >= 18
    /\ \E k \in DOMAIN NeighborsOf(probe).nodes :
           NeighborsOf(probe).nodes[k].h_cost
               = calculate_manhattan_distance(probe, GOAL_STATE) - 1


\* the sequence numbers of the entries popped so far and of those in the frontier
PoppedIds == {popped[i][2] : i \in DOMAIN popped}

FrontierIds == {open_set[i][2] : i \in DOMAIN open_set}

\* the sequence numbers handed out so far are 0 (the root) up to unique_id, one
\* entry each, and in the frontier a later created node has the later number
SequenceNumbersCount ==
    nodes # <<>> /\ exception = "" =>
        /\ PoppedIds \cup FrontierIds = 0 .. unique_id
        /\ Len(popped) + Len(open_set) = unique_id + 1
        /\ \A i \in DOMAIN popped : popped[i][2] = 0 <=> i = 1
        /\ \A i, j \in DOMAIN open_set :
               open_set[i][3] < open_set[j][3] <=> open_set[i][2] < open_set[j][2]
        /\ \A i, j \in DOMAIN open_set :
               i # j => <<open_set[i][1], open_set[i][2]>> # <<open_set[j][1], open_set[j][2]>>

\* a step that pops takes an entry whose f no entry of the frontier undercuts
\* and whose sequence number is the least among the entries with that f
PopsSmallestThenEarliest ==
    Len(popped') = Len(popped) + 1 =>
        \E i \in DOMAIN open_set :
            /\ popped'[Len(popped')][1] = open_set[i][1]
            /\ popped'[Len(popped')][2] = open_set[i][2]
            /\ \A j \in DOMAIN open_set :
                   /\ open_set[i][1] <= open_set[j][1]
                   /\ open_set[j][1] = open_set[i][1] => open_set[i][2] <= open_set[j][2]

\* a step that pushes hands out the numbers after unique_id, in the order in
\* which the pushed nodes were created
PushesNumberInOrder ==
    (pc = "loop" /\ pc' = "loop") =>
        LET added == {e \in Range(open_set') : e[2] > unique_id}
        IN /\ {e[2] : e \in added} = (unique_id + 1) .. unique_id'
           /\ \A e \in Range(open_set') \ added : e \in Range(open_set)
           /\ \A a, b \in added : a[3] < b[3] <=> a[2] < b[2]
           /\ \A e \in added : e[3] > Len(nodes) /\ e[1] = nodes'[e[3]].f_cost

\* C15: every pop returns the entry with the smallest f in the frontier and,
\* among the entries with that f, the one pushed earliest; sequence numbers are
\* unique and increase in push order from 0 at the root, so no two entries of
\* the frontier agree on (f, sequence number).
FrontierIsOrdered ==
    /\ []SequenceNumbersCount
    /\ [][PopsSmallestThenEarliest]_vars
    /\ [][PushesNumberInOrder]_vars

FrontierIsOrderedWitness ==
    /\ pc = "loop"
    /\ Len(popped) > 20
    /\ \E i, j \in DOMAIN open_set :
           /\ open_set[i][1] = open_set[j][1]
           /\ open_set[i][2] < open_set[j][2]
           /\ open_set[1][1] = open_set[i][1]
           /\ i > j


\* the (configuration, g) pairs pushed to the frontier so far: those of the
\* entries popped (g being f less the heuristic) and of the entries waiting
EverPushed ==
    {<<popped[i][3], popped[i][1] - calculate_manhattan_distance(popped[i][3], goal_state)>> :
        i \in DOMAIN popped}
        \cup {<<nodes[open_set[i][3]].state, nodes[open_set[i][3]].g_cost>> : i \in DOMAIN open_set}

\* the best-cost map records the configurations pushed so far, each with the
\* lowest g it was pushed with
MapHoldsLowestPushed ==
    (pc \in {"loop", "returned"} /\ nodes # <<>>) =>
        /\ DOMAIN open_set_g_costs = {p[1] : p \in EverPushed}
        /\ \A p \in EverPushed :
               /\ open_set_g_costs[p[1]] <= p[2]
               /\ \E q \in EverPushed : q[1] = p[1] /\ q[2] = open_set_g_costs[p[1]]

\* an expansion pushes a successor exactly when its configuration is not closed
\* and has no recorded cost or a recorded cost above the successor's g, which
\* is the g of the popped node plus 1
PushesOnlyBetter ==
    (pc = "loop" /\ pc' = "loop") =>
        \A k \in DOMAIN neighbors' :
            LET n == nodes'[neighbors'[k]]
                pushed == \E e \in Range(open_set') : e[3] = neighbors'[k]
            IN /\ n.g_cost = nodes[current'].g_cost + 1
               /\ pushed <=>
                      /\ n.state \notin closed_set'
                      /\ \/ n.state \notin DOMAIN open_set_g_costs
                         \/ n.g_cost < open_set_g_costs[n.state]
               /\ pushed => open_set_g_costs'[n.state] = n.g_cost
               /\ ~pushed => /\ n.state \in DOMAIN open_set_g_costs
                             /\ open_set_g_costs'[n.state] = open_set_g_costs[n.state]
                             /\ open_set_g_costs[n.state] <= n.g_cost

\* C16: the best-cost map holds, for each configuration ever pushed, the lowest
\* g it was pushed with; a successor is pushed if and only if its configuration
\* is not closed and has no recorded cost or a strictly higher one, never at an
\* equal or worse g.
BestCostIsLowestPushed ==
    /\ []MapHoldsLowestPushed
    /\ [][PushesOnlyBetter]_vars

BestCostIsLowestPushedWitness ==
    /\ pc = "loop"
    /\ \E k \in DOMAIN neighbors :
           LET n == nodes[neighbors[k]]
           IN /\ \E e \in Range(open_set) : e[3] = neighbors[k]
              /\ \E q \in EverPushed : q[1] = n.state /\ q[2] > n.g_cost
              /\ open_set_g_costs[n.state] = n.g_cost


\* the f values of the entries popped so far never fall
PoppedFNeverFalls ==
    \A i \in DOMAIN popped : i > 1 => popped[i - 1][1] <= popped[i][1]

\* the entry popped last, when its configuration is popped for the first time,
\* has as g (its f less the heuristic) the breadth-first distance from the
\* start to its configuration
FirstPopIsShortest ==
    popped # <<>> =>
        LET last == popped[Len(popped)]
            g == last[1] - calculate_manhattan_distance(last[3], goal_state)
        IN (\A i \in 1 .. Len(popped) - 1 : popped[i][3] # last[3]) =>
               g = ShortestDistance(initial_state, last[3])

\* C20: in a search with the canonical goal the f values of the popped nodes
\* form a non-decreasing sequence, and a configuration popped for the first
\* time is popped with g equal to its shortest distance from the start.
PopsInOrderOfCost ==
    Canonical => PoppedFNeverFalls /\ FirstPopIsShortest

PopsInOrderOfCostWitness ==
    /\ Canonical
    /\ pc = "loop"
    /\ Len(popped) >= 30
    /\ popped[Len(popped)][1] > popped[1][1]
    /\ \E i \in 1 .. Len(popped) - 1 :
           /\ popped[i][3] = popped[Len(popped)][3]
           /\ popped[i][1] < popped[Len(popped)][1]


\* tile clicks are allowed and the four controls a solve disables are enabled
AllControlsEnabled ==
    /\ allow_user_moves
    /\ solve_button = "normal"
    /\ reset_button = "normal"
    /\ shuffle_button = "normal"
    /\ set_button = "normal"

\* C12: after a solve has been started, whatever its outcome (solved and
\* animated, unsolvable, unknown failure), the window eventually reaches a
\* state in which tile clicks are allowed and Set, Shuffle, Reset and Solve are
\* all enabled again, without any act of the user but the closing of the
\* dialog that reports the outcome.
InteractionIsRestored ==
    (pc = "call" /\ ~allow_user_moves) ~> AllControlsEnabled


\* the result solve_puzzle owes for a board: unsolvable for an odd inversion
\* count, else a solution along legal moves from the board to the goal
ResultIsFor(r, board) ==
    /\ ~IsNone(r)
    /\ IsUnsolvable(r) <=> InversionCount(board) % 2 = 1
    /\ ~IsUnsolvable(r) => IsSolved(r) /\ LegalPath(r.path, board, GOAL_STATE)

\* Every solve started has been handled but perhaps the last one.  When all
\* are handled the queue is empty, the polling has stopped and no thread runs;
\* while the last one is not, the polling goes on and either the thread runs
\* and the queue is empty or the thread has returned and the queue holds its
\* one result.  Each result handled is the one owed for the board of its solve.
QueueHoldsTheOneResult ==
    /\ Len(result_queue) <= 1
    /\ Len(handled) <= Len(solves)
    /\ Len(solves) <= Len(handled) + 1
    /\ \A i \in DOMAIN solves : IsPermutation(solves[i].board)
    /\ \A i \in DOMAIN handled : ResultIsFor(handled[i], solves[i].board)
    /\ Len(solves) = Len(handled) =>
           /\ result_queue = <<>>
           /\ "check_solution_queue" \notin scheduled
           /\ main_pc = "mainloop" \/ InDialog
           /\ pc \in {"idle", "returned"}
    /\ Len(solves) = Len(handled) + 1 =>
           /\ ("check_solution_queue" \in scheduled) = (main_pc = "mainloop")
           /\ pc \in {"call", "loop"} => result_queue = <<>> /\ exception = ""
           /\ pc \in {"idle", "returned"} =>
                  /\ Len(result_queue) = 1
                  /\ ResultIsFor(result_queue[1], solves[Len(solves)].board)
           /\ pc \in {"call", "loop", "returned"} =>
                  initial_state = solves[Len(solves)].board
    /\ InDialog => scheduled = {} /\ ~IsSolved(handled[Len(handled)])
    /\ pc # "raised"
    /\ ~ENABLED Exhausted
    /\ ~ENABLED StartRaises
    /\ ~ENABLED ExpandRaises

\* a step puts at most one result, takes at most one, and a step that takes
\* one hands over the head of the queue for the one solve that is waiting
PutsAndTakesOne ==
    /\ Len(result_queue') <= Len(result_queue) + 1
    /\ Len(handled') <= Len(handled) + 1
    /\ Len(handled') = Len(handled) + 1 =>
           /\ result_queue # <<>>
           /\ handled' = Append(handled, Head(result_queue))
           /\ result_queue' = Tail(result_queue)
           /\ Len(handled') = Len(solves)
           /\ "check_solution_queue" \notin scheduled'
    /\ Len(result_queue') = Len(result_queue) + 1 =>
           pc \in {"call", "loop"} /\ pc' = "returned"

\* C13: for every solve started from the window on a permutation the thread
\* puts exactly one result on the queue and the polling takes and handles it
\* exactly once and then stops; no result is lost, handled twice, or left in
\* the queue for a later solve.
ResultSeenExactlyOnce ==
    /\ []QueueHoldsTheOneResult
    /\ [][PutsAndTakesOne]_vars
    /\ (Len(solves) > Len(handled)) ~> (Len(solves) = Len(handled))

ResultSeenExactlyOnceWitness ==
    /\ Len(handled) = 2
    /\ Len(solves) = 2
    /\ IsSolved(handled[1])
    /\ IsSolved(handled[2])
    /\ handled[2].moves > 0
    /\ result_queue = <<>>
    /\ pc = "idle"


\* the board a text writes: its numbers, when they are nine and cover 0..8
WritesBoard(text) ==
    ~ParseNumbers(text).raised /\ IsPermutation(ParseNumbers(text).nums)

\* the boards of the window, and those handed to the solver, are permutations
BoardsArePermutations ==
    /\ IsPermutation(self_current_state)
    /\ IsPermutation(self_initial_state)
    /\ \A i \in DOMAIN solves : IsPermutation(solves[i].board)
    /\ pc \in {"call", "loop", "returned"} => IsPermutation(initial_state)

\* a Set on a text that does not write a board changes neither board; a Set
\* on a text that does makes its board the current and the initial one
SetTakesBoardsOnly ==
    \A text \in InputTexts :
        set_board_from_input(text) =>
            IF WritesBoard(text)
            THEN /\ self_current_state' = ParseNumbers(text).nums
                 /\ self_initial_state' = ParseNumbers(text).nums
            ELSE UNCHANGED <<self_current_state, self_initial_state>>

\* C17: through Set, tile clicks, Shuffle, Reset, Solve and the animation the
\* current and the initial board stay permutations of 0..8, so the solver is
\* only started on a permutation; a Set whose text does not hold exactly nine
\* numbers covering 0..8 is rejected and leaves both boards as they were.
BoardStaysPermutation ==
    /\ []BoardsArePermutations
    /\ [][SetTakesBoardsOnly]_vars

BoardStaysPermutationWitness ==
    /\ input_entry = Format(<<1, 2, 3, 4, 5, 6, 7, 8, 8>>)
    /\ board_from = "set"
    /\ self_initial_state = <<1, 2, 3, 4, 5, 6, 7, 0, 8>>
    /\ self_current_state = GOAL_STATE
    /\ Len(handled) = 1

\* C18: every board that legal moves of the blank reach from the canonical
\* goal, in any number and by any choice among the moves on the grid, and so
\* every board Shuffle leaves, is a permutation with an even inversion count,
\* which the solvability check lets through; and a solve started on a board
\* left by Shuffle is answered with a solution, never with unsolvable.
ShuffledIsSolvable ==
    /\ pc = "probe" =>
           /\ IsPermutation(probe)
           /\ InversionCount(probe) % 2 = 0
           /\ ~ReportsUnsolvable(probe)
    /\ board_from = "shuffle" =>
           /\ IsPermutation(self_initial_state)
           /\ InversionCount(self_initial_state) % 2 = 0
           /\ ~ReportsUnsolvable(self_initial_state)
    /\ \A i \in DOMAIN solves :
           solves[i].from = "shuffle" =>
               /\ i \in DOMAIN handled =>
                      IsSolved(handled[i]) /\ ~IsUnsolvable(handled[i])
               /\ i = Len(handled) + 1 =>
                      \A k \in DOMAIN result_queue :
                          IsSolved(result_queue[k]) /\ ~IsUnsolvable(result_queue[k])

ShuffledIsSolvableWitness ==
    /\ Len(handled) = 1
    /\ solves[1].from = "shuffle"
    /\ IsSolved(handled[1])
    /\ handled[1].moves = 8
    /\ handled[1].path[1] = self_initial_state
    /\ self_initial_state = <<1, 5, 0, 4, 8, 2, 7, 6, 3>>

\* a solve is in flight from start_solve_thread until its result is handled
\* and the animation, if any, has run out
InFlight == Len(solves) > Len(handled) \/ "animate_solution" \in scheduled

\* while a solve is in flight tile clicks are off and the four buttons are
\* disabled; while it is animated, the path is the one of the result handled
\* last and the board shown is the frame the index stands after
FlightLocksTheBoard ==
    InFlight =>
        /\ ~allow_user_moves
        /\ solve_button = "disabled"
        /\ reset_button = "disabled"
        /\ shuffle_button = "disabled"
        /\ set_button = "disabled"
        /\ "animate_solution" \in scheduled =>
               /\ Len(handled) = Len(solves)
               /\ IsSolved(handled[Len(handled)])
               /\ solution_path = handled[Len(handled)].path
               /\ animation_index \in 1 .. Len(solution_path)
               /\ self_current_state = solution_path[animation_index]

\* no thread is started while a solve is in flight; in flight the initial
\* board stays and the current board changes only to the next frame of the
\* path; a flight that ends after a solution leaves the goal on the board
OnlyFramesMoveTheBoard ==
    /\ Len(solves') > Len(solves) =>
           /\ ~InFlight
           /\ pc \in {"idle", "returned"}
           /\ result_queue = <<>>
           /\ scheduled = {}
    /\ InFlight =>
           /\ self_initial_state' = self_initial_state
           /\ Len(solves') = Len(solves)
           /\ (self_current_state' # self_current_state
                   \/ animation_index' # animation_index) =>
                  /\ "animate_solution" \in scheduled'
                  /\ animation_index' =
                         IF "animate_solution" \in scheduled THEN animation_index + 1 ELSE 1
                  /\ self_current_state' = handled'[Len(handled')].path[animation_index']
    /\ (InFlight /\ ~InFlight' /\ IsSolved(handled'[Len(handled')])) =>
           /\ animation_index' = Len(handled'[Len(handled')].path)
           /\ self_current_state' = self_goal_state
           /\ self_current_state' = self_current_state

\* C19: at most one solve is in flight: until its result is handled and its
\* animation has finished no second thread is started and no click, Set,
\* Shuffle or Reset changes the board, which changes only by the frames of the
\* animation, the configurations of the path in order, ending on the goal.
OneSolveInFlight ==
    /\ []FlightLocksTheBoard
    /\ [][OnlyFramesMoveTheBoard]_vars

OneSolveInFlightWitness ==
    /\ "animate_solution" \in scheduled
    /\ Len(solves) = 2
    /\ animation_index = 3
    /\ Len(solution_path) > 3
    /\ events = 3

=============================================================================
